---- MODULE Spec2Model ----
(***************************************************************************)
(* Fall detection: detect / check_person_on_object (demo_detector.py) and  *)
(* the camera_loop / video_feed / ws threads with their shared state       *)
(* (main.py).                                                              *)
(*                                                                         *)
(* Real quantities are kept exact: confidences and visibilities are        *)
(* hundredths, times are whole seconds, ratios are compared by cross       *)
(* multiplication.                                                         *)
(***************************************************************************)
EXTENDS Integers, Sequences, FiniteSets, TLC

VARIABLES
    \* ---- main.py module state and camera_loop locals
    pc,                 \* position of camera_loop
    latest_frame,       \* main.py:14, NoFrame is None
    fall_detected_time, \* main.py:15, NoTime is None
    message_queue,      \* main.py:16
    frame_lock,         \* main.py:13, holder of the lock or Free
    frame,              \* camera_loop local: id of the resized input frame
    new_frame,          \* camera_loop local: id of the annotated frame
    actually_fallen,    \* camera_loop local
    now,                \* time.time(), in seconds
    \* ---- video_feed generators
    rpc, buffer, seen,
    \* ---- one call of detect / check_person_on_object on a frame
    fpc, raw, keypoints, info, fall_suspected, actually_fall, iou,
    \* ---- history of camera_loop (not program state)
    runStart,           \* time of the first true frame of the current unbroken run
    runAlerts,          \* alerts put on the queue during the current run
    segStart,           \* first true frame since the run began or since its last alert
    onsetFrame,         \* frame at which fall_detected_time was last recorded
    lastFalseFrame,     \* last processed frame with actually_fallen = false
    streak,             \* consecutive processed true frames, capped at 2
    decided,            \* number of cycles that took the alert branch
    notifier_raised,    \* the notifier raised in some cycle
    alertTime,          \* time of the last message_queue.put
    alertFrame,         \* frame of the cycle of the last message_queue.put
    notified,           \* image last handed to send_opencv_frame
    queued,             \* for each queued message: its number and triggering frame
    \* ---- /ws handlers
    wpc,                \* position of each handler
    wmsg,               \* msg of each handler, with its number and triggering frame
    delivered,          \* messages in the order of their ws.send (not program state)
    dropped             \* messages dequeued whose ws.send raised (not program state)

camVars   == <<pc, latest_frame, fall_detected_time, message_queue, frame_lock,
               frame, new_frame, actually_fallen, now>>
feedVars  == <<rpc, buffer, seen>>
fnVars    == <<fpc, raw, keypoints, info, fall_suspected, actually_fall, iou>>
histVars  == <<runStart, runAlerts, segStart, onsetFrame, lastFalseFrame,
               streak, decided, notifier_raised>>
alertVars == <<alertTime, alertFrame, notified, queued>>
wsVars    == <<wpc, wmsg, delivered, dropped>>
vars      == <<camVars, feedVars, fnVars, histVars, alertVars, wsVars>>

-----------------------------------------------------------------------------
(* Bounds *)
MaxX == 4
MaxY == 3
MaxDet == 2
MaxPersons == 2
MaxFurniture == 2
MaxTime == 10
MaxFrames == 4
MaxFeedFrames == 3
NumReaders == 2
NumHandlers == 2

(* Program constants *)
TOTAL_LANDMARKS == 33
KEYPOINT_VISIBILITY_THRESHOLD == 35      \* 0.35, in hundredths
BODY_VISIBILITY_NUM == 1                 \* BODY_VISIBILITY_THRESHOLD = 0.5 = 1/2
BODY_VISIBILITY_DEN == 2
CONF_THRESHOLD == 60                     \* conf_threshold = 0.6, in hundredths
LYING_RATIO == 115                       \* 1.15, in hundredths
EPS_MICRO == 1                           \* 1e-6, in millionths
IOU_THRESHOLD == 10                      \* iou_threshold = 0.1, in hundredths
VERTICAL_TOLERANCE == 35                 \* vertical_tolerance = 0.35, in hundredths
SUSTAIN_SECONDS == 5

AllowedClasses == {"person", "sofa", "bed", "chair"}
SurfaceOrder == <<"bed", "sofa", "chair">>

NoTime == -1
NoFrame == 0
Free == 0
Camera == NumReaders + 1
NoMsg == [msg |-> "", n |-> 0, frame |-> NoFrame]
NoIou == [aa |-> [num |-> 0, den |-> 1], ab |-> [num |-> 0, den |-> 1],
          ba |-> [num |-> 0, den |-> 1]]

\* frame (the resized input) and new_frame (the copy detect draws on,
\* demo_detector.py:25) are different images of the same capture
Resized(n) == [id |-> n, annotated |-> FALSE]
Annotated(n) == [id |-> n, annotated |-> TRUE]
NoImage == Resized(NoFrame)

Max2(a, b) == IF a >= b THEN a ELSE b
Min2(a, b) == IF a <= b THEN a ELSE b

SeqsUpTo(S, n) == UNION {[1..k -> S] : k \in 0..n}

-----------------------------------------------------------------------------
(* demo_detector.py: detect *)

\* the dict appended to info[class_detect]
StoredBox(x1, y1, x2, y2) ==
    [x1 |-> x1, y1 |-> y1, x2 |-> x2, y2 |-> y2, width |-> x2 - x1, height |-> y2 - y1]

EmptyInfo == [person |-> <<>>, bed |-> <<>>, sofa |-> <<>>, chair |-> <<>>]

\* visible_kps without the visibility test
VisibleKps_AnyVisibility(kps, d) ==
    {i \in 1..Len(kps) :
        /\ d.x1 <= kps[i].x /\ kps[i].x <= d.x2
        /\ d.y1 <= kps[i].y /\ kps[i].y <= d.y2}

\* visible_kps: keypoints with enough visibility inside the box, bounds inclusive
VisibleKps(kps, d) ==
    {i \in 1..Len(kps) :
        /\ kps[i].v >= KEYPOINT_VISIBILITY_THRESHOLD
        /\ d.x1 <= kps[i].x /\ kps[i].x <= d.x2
        /\ d.y1 <= kps[i].y /\ kps[i].y <= d.y2}

\* kp_fraction < BODY_VISIBILITY_THRESHOLD, with kp_fraction = len(visible_kps) / 33
BodyHidden(kps, d) ==
    Cardinality(VisibleKps(kps, d)) * BODY_VISIBILITY_DEN < BODY_VISIBILITY_NUM * TOTAL_LANDMARKS

\* ratio = height / (width + 1e-6); ratio < 1.15.
\* Multiplied out by 100 * 10^6 * (width + 1e-6) the test is
\*     100 * height * 10^6  <  115 * width * 10^6 + 115 * EPS_MICRO
\* and is evaluated on the (millions, units) digits of both sides, the units
\* of the right side being below 10^6.
Lying(width, height) ==
    LET lhsMillions == 100 * height
        rhsMillions == LYING_RATIO * width
        rhsUnits    == LYING_RATIO * EPS_MICRO
    IN  \/ lhsMillions < rhsMillions
        \/ lhsMillions = rhsMillions /\ 0 < rhsUnits

\* the update of fall_suspected by one surviving person
SuspectAfterPerson(fs, lying) == lying

\* one iteration of "for box in result.boxes"
DetectBox(d, kps, st) ==
    IF d.conf < CONF_THRESHOLD \/ d.cls \notin AllowedClasses
    THEN st
    ELSE IF d.cls = "person" /\ BodyHidden(kps, d)
    THEN st
    ELSE LET b == StoredBox(d.x1, d.y1, d.x2, d.y2)
             inf == [st.info EXCEPT ![d.cls] = Append(@, b)]
         IN  [info |-> inf,
              fall_suspected |->
                  IF d.cls = "person"
                  THEN SuspectAfterPerson(st.fall_suspected, Lying(b.width, b.height))
                  ELSE st.fall_suspected]

RECURSIVE DetectLoop(_, _, _, _)
DetectLoop(boxes, kps, i, st) ==
    IF i > Len(boxes) THEN st
    ELSE DetectLoop(boxes, kps, i + 1, DetectBox(boxes[i], kps, st))

\* detect(frame): the pair (fall_suspected, info)
Detect(boxes, kps) ==
    DetectLoop(boxes, kps, 1, [info |-> EmptyInfo, fall_suspected |-> FALSE])

-----------------------------------------------------------------------------
(* demo_detector.py: check_person_on_object *)

\* box_iou without the max(0, .) of line 99
box_iou_NoClamp(a, b) ==
    LET xA == Max2(a.x1, b.x1)
        yA == Max2(a.y1, b.y1)
        xB == Min2(a.x2, b.x2)
        yB == Min2(a.y2, b.y2)
        inter_area == (xB - xA) * (yB - yA)
        area_a == (a.x2 - a.x1) * (a.y2 - a.y1)
        area_b == (b.x2 - b.x1) * (b.y2 - b.y1)
    IN  IF inter_area = 0 THEN [num |-> 0, den |-> 1]
        ELSE [num |-> inter_area, den |-> area_a + area_b - inter_area]

\* box_iou as the fraction num / den; 0 is 0 / 1
box_iou(a, b) ==
    LET xA == Max2(a.x1, b.x1)
        yA == Max2(a.y1, b.y1)
        xB == Min2(a.x2, b.x2)
        yB == Min2(a.y2, b.y2)
        inter_area == Max2(0, xB - xA) * Max2(0, yB - yA)
        area_a == (a.x2 - a.x1) * (a.y2 - a.y1)
        area_b == (b.x2 - b.x1) * (b.y2 - b.y1)
    IN  IF inter_area = 0 THEN [num |-> 0, den |-> 1]
        ELSE [num |-> inter_area, den |-> area_a + area_b - inter_area]

HorizontalOverlap(person, obj) ==
    Max2(0, Min2(person.x2, obj.x2) - Max2(person.x1, obj.x1))

\* overlap > iou_threshold
OverlapOk(person, obj) ==
    LET o == box_iou(person, obj)
    IN  IF o.den > 0 THEN 100 * o.num > IOU_THRESHOLD * o.den
                     ELSE 100 * o.num < IOU_THRESHOLD * o.den

\* horizontal_fraction > 0.5, for a person of non-zero width
HorizontalOk(person, obj) ==
    LET w == person.x2 - person.x1
    IN  IF w > 0 THEN 2 * HorizontalOverlap(person, obj) > w
                 ELSE 2 * HorizontalOverlap(person, obj) < w

\* vertical_position_ok
VerticalOk(person, obj) ==
    /\ person.y2 <= obj.y2
    /\ 100 * person.y2 >= 100 * obj.y1 - obj.height * VERTICAL_TOLERANCE

\* line 132 without vertical_position_ok
Supports_NoVertical(person, obj) ==
    OverlapOk(person, obj) /\ HorizontalOk(person, obj)

\* the condition of line 132
Supports(person, obj) ==
    OverlapOk(person, obj) /\ HorizontalOk(person, obj) /\ VerticalOk(person, obj)

\* "for obj in info[obj_name]": err is ZeroDivisionError at line 129
RECURSIVE ObjLoop(_, _, _, _)
ObjLoop(person, objs, k, af) ==
    IF k > Len(objs) THEN [err |-> FALSE, af |-> af]
    ELSE IF person.x2 - person.x1 = 0 THEN [err |-> TRUE, af |-> af]
    ELSE IF Supports(person, objs[k]) THEN [err |-> FALSE, af |-> FALSE]
    ELSE ObjLoop(person, objs, k + 1, af)

\* "for obj_name in ['bed', 'sofa', 'chair']"
RECURSIVE ClassLoop(_, _, _, _)
ClassLoop(person, inf, n, af) ==
    IF n > Len(SurfaceOrder) THEN [err |-> FALSE, af |-> af]
    ELSE IF inf[SurfaceOrder[n]] = <<>> THEN ClassLoop(person, inf, n + 1, af)
    ELSE LET r == ObjLoop(person, inf[SurfaceOrder[n]], 1, af)
         IN  IF r.err \/ ~r.af THEN r
             ELSE ClassLoop(person, inf, n + 1, r.af)

\* "for person in info['person']"
RECURSIVE PersonLoop(_, _, _)
PersonLoop(inf, i, af) ==
    IF i > Len(inf.person) THEN [err |-> FALSE, af |-> af]
    ELSE LET r == ClassLoop(inf.person[i], inf, 1, af)
         IN  IF r.err THEN r ELSE PersonLoop(inf, i + 1, r.af)

\* check_person_on_object(info, frame): err is an uncaught ZeroDivisionError
check_person_on_object(inf) ==
    IF inf.person = <<>> THEN [err |-> FALSE, af |-> FALSE]
    ELSE PersonLoop(inf, 1, TRUE)

\* main.py:33-37: actually_fallen of a cycle; err is an uncaught exception
ActuallyFallen(boxes, kps) ==
    LET d == Detect(boxes, kps)
    IN  IF d.fall_suspected THEN check_person_on_object(d.info)
        ELSE [err |-> FALSE, af |-> FALSE]

-----------------------------------------------------------------------------
(* Inputs *)

Det(cls, x1, y1, x2, y2, conf) ==
    [cls |-> cls, x1 |-> x1, y1 |-> y1, x2 |-> x2, y2 |-> y2, conf |-> conf]

\* a pose result: n landmarks at (x, y) with visibility v, the other 33 - n
\* either outside every box or too dim
Pose(n, x, y, v, rest) ==
    [i \in 1..TOTAL_LANDMARKS |->
        IF i <= n THEN [x |-> x, y |-> y, v |-> v]
        ELSE IF rest = "outside" THEN [x |-> 1000, y |-> 1000, v |-> 99]
        ELSE [x |-> x, y |-> y, v |-> 0]]

\* --- frames for detect
DetWidths == {0, 20}
DetHeights == {0, 22, 23, 24}
DetConfs == {59, 60}
RawAlphabet ==
    {Det("person", 0, 0, w, h, c) : w \in DetWidths, h \in DetHeights, c \in DetConfs}
    \cup {Det("bed", 0, 0, 20, 24, c) : c \in DetConfs}
    \cup {Det("dog", 0, 0, 20, 20, 90)}
RawFrames == SeqsUpTo(RawAlphabet, MaxDet)
PoseSet ==
    {<<>>} \cup
    {Pose(n, x, 0, v, rest) : n \in {16, 17}, x \in {0, 20, 21}, v \in {34, 35},
                              rest \in {"outside", "dim"}}

\* --- FrameDetections for check_person_on_object
GridBoxes ==
    {StoredBox(c[1], c[2], c[3], c[4]) :
        c \in {c \in (0..MaxX) \X (0..MaxY) \X (0..MaxX) \X (0..MaxY) :
                   c[1] <= c[3] /\ c[2] <= c[4]}}
\* boxes with x1 < x2 and y1 < y2
ValidBoxes == {b \in GridBoxes : b.width > 0 /\ b.height > 0}
CornerBoxes ==
    {StoredBox(0, 0, x2, y2) : x2 \in {0, 1, MaxX}, y2 \in {0, 1, MaxY}}
FurnitureBoxes ==
    {StoredBox(k, k, MaxX - k, MaxY - k) : k \in {0, 1}}
PersonLists == SeqsUpTo(GridBoxes, 1) \cup SeqsUpTo(CornerBoxes, MaxPersons)
FurnitureLists ==
    SeqsUpTo([cls : {"bed", "sofa", "chair"}, box : FurnitureBoxes], MaxFurniture)

\* info as detect groups it: one list per class, detector order kept
RECURSIVE Group(_, _, _)
Group(fs, i, inf) ==
    IF i > Len(fs) THEN inf
    ELSE Group(fs, i + 1, [inf EXCEPT ![fs[i].cls] = Append(@, fs[i].box)])

\* the FrameDetections of the lying person alone and of the lying person on a bed
LyingPerson == StoredBox(100, 200, 260, 260)
Bed == StoredBox(80, 180, 280, 280)
InfoOnFloor == [EmptyInfo EXCEPT !.person = <<LyingPerson>>]
InfoOnBed == [EmptyInfo EXCEPT !.person = <<LyingPerson>>, !.bed = <<Bed>>]

Infos ==
    {Group(fs, 1, [EmptyInfo EXCEPT !.person = ps]) : ps \in PersonLists, fs \in FurnitureLists}
    \cup {InfoOnFloor, InfoOnBed}

\* --- frames the camera can deliver: the image of a scene and what the
\* detector and the pose estimator report for it
InsidePose(x, y) == Pose(TOTAL_LANDMARKS, x, y, 99, "outside")
Scenes ==
    { [boxes |-> <<>>, kps |-> <<>>],
      \* a standing person
      [boxes |-> <<Det("person", 100, 100, 160, 260, 90)>>, kps |-> InsidePose(130, 180)],
      \* a lying person on the floor
      [boxes |-> <<Det("person", 100, 200, 260, 260, 90)>>, kps |-> InsidePose(180, 230)],
      \* the same person on a bed
      [boxes |-> <<Det("person", 100, 200, 260, 260, 90), Det("bed", 80, 180, 280, 280, 90)>>,
       kps |-> InsidePose(180, 230)],
      \* a far person reduced to a point box, next to a bed
      [boxes |-> <<Det("person", 100, 100, 100, 100, 90), Det("bed", 80, 180, 280, 280, 90)>>,
       kps |-> InsidePose(100, 100)] }

-----------------------------------------------------------------------------
(* main.py: camera_loop *)

Readers == 1..NumReaders
Handlers == 1..NumHandlers
Msg == "FALLDETECTED"

\* lines 41-45 without the test of line 42
OnsetUpdate_Overwrite(fdt, fallen, t) ==
    IF fallen THEN t ELSE NoTime

\* lines 41-45 without the else branch
OnsetUpdate_NoReset(fdt, fallen, t) ==
    IF fallen THEN (IF fdt = NoTime THEN t ELSE fdt) ELSE fdt

\* lines 41-45: fall_detected_time after the frame's actually_fallen
OnsetUpdate(fdt, fallen, t) ==
    IF fallen THEN (IF fdt = NoTime THEN t ELSE fdt) ELSE NoTime

\* lines 47-49 with elapsed > 5
AlertDue_Strict(fdt, t) == fdt # NoTime /\ t - fdt > SUSTAIN_SECONDS

\* lines 47-49: fall_detected_time is not None and elapsed >= 5
AlertDue(fdt, t) == fdt # NoTime /\ t - fdt >= SUSTAIN_SECONDS

\* a failed read treated as a frame without a fall
CamReadFail_ClearsOnset ==
    /\ pc = "read"
    /\ pc' = "retry"
    /\ fall_detected_time' = NoTime
    /\ UNCHANGED <<latest_frame, message_queue, frame_lock, frame, new_frame,
                   actually_fallen, now, feedVars, fnVars, wsVars, alertVars, histVars>>

\* lines 27-29, cap.read() fails: sleep
CamReadFail ==
    /\ pc = "read"
    /\ pc' = "retry"
    /\ UNCHANGED <<latest_frame, fall_detected_time, message_queue, frame_lock, frame,
                   new_frame, actually_fallen, now, feedVars, fnVars, wsVars, alertVars, histVars>>

\* line 30: continue
CamRetry ==
    /\ pc = "retry"
    /\ pc' = "read"
    /\ UNCHANGED <<latest_frame, fall_detected_time, message_queue, frame_lock, frame,
                   new_frame, actually_fallen, now, feedVars, fnVars, wsVars, alertVars, histVars>>

\* lines 27-32, cap.read() delivers the next frame
CamRead(maxFrames) ==
    /\ pc = "read"
    /\ frame < maxFrames
    /\ frame' = frame + 1
    /\ pc' = "detect"
    /\ UNCHANGED <<latest_frame, fall_detected_time, message_queue, frame_lock, new_frame,
                   actually_fallen, now, feedVars, fnVars, wsVars, alertVars, runStart,
                   runAlerts, segStart, onsetFrame, lastFalseFrame, streak, decided,
                   notifier_raised>>

\* lines 33-37: detect and check_person_on_object; an exception ends the thread
CamDetect ==
    /\ pc = "detect"
    /\ \E s \in Scenes :
          LET r == ActuallyFallen(s.boxes, s.kps)
          IN  IF r.err
              THEN /\ pc' = "dead"
                   /\ UNCHANGED <<new_frame, actually_fallen>>
              ELSE /\ pc' = "publish"
                   /\ new_frame' = frame
                   /\ actually_fallen' = r.af
    /\ UNCHANGED <<latest_frame, fall_detected_time, message_queue, frame_lock, frame, now,
                   feedVars, fnVars, wsVars, alertVars, histVars>>

\* line 38 without waiting for the lock
CamLock_NoWait ==
    /\ pc = "publish"
    /\ frame_lock' = Camera
    /\ pc' = "locked"
    /\ UNCHANGED <<latest_frame, fall_detected_time, message_queue, frame, new_frame,
                   actually_fallen, now, feedVars, fnVars, wsVars, alertVars, histVars>>

\* line 38: with frame_lock
CamLock ==
    /\ pc = "publish"
    /\ frame_lock = Free
    /\ frame_lock' = Camera
    /\ pc' = "locked"
    /\ UNCHANGED <<latest_frame, fall_detected_time, message_queue, frame, new_frame,
                   actually_fallen, now, feedVars, fnVars, wsVars, alertVars, histVars>>

\* the with block of lines 38-39 without the assignment
CamPublish_NoWrite ==
    /\ pc = "locked"
    /\ frame_lock' = Free
    /\ pc' = "confirm"
    /\ UNCHANGED <<latest_frame, fall_detected_time, message_queue, frame, new_frame,
                   actually_fallen, now, feedVars, fnVars, wsVars, alertVars, histVars>>

\* line 39 and the end of the with block
CamPublish ==
    /\ pc = "locked"
    /\ latest_frame' = new_frame
    /\ frame_lock' = Free
    /\ pc' = "confirm"
    /\ UNCHANGED <<fall_detected_time, message_queue, frame, new_frame, actually_fallen, now,
                   feedVars, fnVars, wsVars, alertVars, histVars>>

\* lines 41-49: both time.time() reads fall in the same second, nothing
\* between them blocks
CamConfirm ==
    /\ pc = "confirm"
    /\ LET fdt == OnsetUpdate(fall_detected_time, actually_fallen, now)
           due == AlertDue(fdt, now)
       IN  /\ fall_detected_time' = fdt
           /\ pc' = IF due THEN "notify" ELSE "sleep"
           /\ decided' = IF due THEN decided + 1 ELSE decided
           /\ onsetFrame' = IF fall_detected_time = NoTime /\ fdt # NoTime
                             THEN frame ELSE onsetFrame
    /\ runStart' = IF actually_fallen
                    THEN (IF runStart = NoTime THEN now ELSE runStart) ELSE NoTime
    /\ runAlerts' = IF actually_fallen /\ runStart # NoTime THEN runAlerts ELSE 0
    /\ segStart' = IF actually_fallen
                    THEN (IF segStart = NoTime THEN now ELSE segStart) ELSE NoTime
    /\ lastFalseFrame' = IF actually_fallen THEN lastFalseFrame ELSE frame
    /\ streak' = IF actually_fallen THEN Min2(streak + 1, 2) ELSE 0
    /\ UNCHANGED <<latest_frame, message_queue, frame_lock, frame, new_frame, actually_fallen,
                   now, feedVars, fnVars, wsVars, alertVars, notifier_raised>>

\* lines 50-54, send_msg and send_opencv_frame return
CamNotify ==
    /\ pc = "notify"
    /\ notified' = Resized(frame)
    /\ pc' = "put"
    /\ UNCHANGED <<latest_frame, fall_detected_time, message_queue, frame_lock, frame,
                   new_frame, actually_fallen, now, feedVars, fnVars, wsVars, histVars,
                   alertTime, alertFrame, queued>>

\* lines 53-54, push_message raises: nothing in camera_loop catches it
CamNotifyRaise ==
    /\ pc = "notify"
    /\ pc' = "dead"
    /\ notifier_raised' = TRUE
    /\ UNCHANGED <<latest_frame, fall_detected_time, message_queue, frame_lock, frame,
                   new_frame, actually_fallen, now, feedVars, fnVars, wsVars, alertVars, runStart,
                   runAlerts, segStart, onsetFrame, lastFalseFrame, streak, decided>>

\* line 55 without line 56
CamPut_KeepOnset ==
    /\ pc = "put"
    /\ message_queue' = Append(message_queue, Msg)
    /\ pc' = "sleep"
    /\ runAlerts' = runAlerts + 1
    /\ segStart' = NoTime
    /\ alertTime' = now
    /\ alertFrame' = frame
    /\ queued' = Append(queued, [n |-> decided, frame |-> frame])
    /\ UNCHANGED <<latest_frame, fall_detected_time, frame_lock, frame, new_frame,
                   actually_fallen, now, feedVars, fnVars, wsVars, notified, runStart, onsetFrame,
                   lastFalseFrame, streak, decided, notifier_raised>>

\* lines 55-56
CamPut ==
    /\ pc = "put"
    /\ message_queue' = Append(message_queue, Msg)
    /\ fall_detected_time' = NoTime
    /\ pc' = "sleep"
    /\ runAlerts' = runAlerts + 1
    /\ segStart' = NoTime
    /\ alertTime' = now
    /\ alertFrame' = frame
    /\ queued' = Append(queued, [n |-> decided, frame |-> frame])
    /\ UNCHANGED <<latest_frame, frame_lock, frame, new_frame, actually_fallen, now,
                   feedVars, fnVars, wsVars, notified, runStart, onsetFrame,
                   lastFalseFrame, streak, decided, notifier_raised>>

\* line 58
CamSleep ==
    /\ pc = "sleep"
    /\ pc' = "read"
    /\ UNCHANGED <<latest_frame, fall_detected_time, message_queue, frame_lock, frame,
                   new_frame, actually_fallen, now, feedVars, fnVars, wsVars, alertVars, histVars>>

\* the wall clock advances
Tick ==
    /\ now < MaxTime
    /\ now' = now + 1
    /\ UNCHANGED <<pc, latest_frame, fall_detected_time, message_queue, frame_lock, frame,
                   new_frame, actually_fallen, feedVars, fnVars, wsVars, alertVars, histVars>>

CameraLoop(maxFrames) ==
    \/ CamReadFail \/ CamRetry \/ CamRead(maxFrames) \/ CamDetect \/ CamLock \/ CamPublish
    \/ CamConfirm \/ CamNotify \/ CamNotifyRaise \/ CamPut \/ CamSleep

CamInit ==
    /\ pc = "read"
    /\ latest_frame = NoFrame
    /\ fall_detected_time = NoTime
    /\ message_queue = <<>>
    /\ frame_lock = Free
    /\ frame = 0
    /\ new_frame = NoFrame
    /\ actually_fallen = FALSE
    /\ now = 0
    /\ runStart = NoTime
    /\ runAlerts = 0
    /\ segStart = NoTime
    /\ onsetFrame = 0
    /\ lastFalseFrame = 0
    /\ streak = 0
    /\ decided = 0
    /\ notifier_raised = FALSE
    /\ alertTime = NoTime
    /\ alertFrame = NoFrame
    /\ notified = NoImage
    /\ queued = <<>>

FeedInit ==
    /\ rpc = [r \in Readers |-> "idle"]
    /\ buffer = [r \in Readers |-> NoFrame]
    /\ seen = [r \in Readers |-> NoFrame]

\* no /ws connection yet
WsInit ==
    /\ wpc = [c \in Handlers |-> "get"]
    /\ wmsg = [c \in Handlers |-> NoMsg]
    /\ delivered = <<>>
    /\ dropped = {}

FnIdle ==
    /\ fpc = "idle"
    /\ raw = <<>>
    /\ keypoints = <<>>
    /\ info = EmptyInfo
    /\ fall_suspected = FALSE
    /\ actually_fall = [err |-> FALSE, af |-> FALSE]
    /\ iou = NoIou

Init == CamInit /\ FeedInit /\ WsInit /\ FnIdle
Next == CameraLoop(MaxFrames) \/ Tick
Spec == Init /\ [][Next]_vars

-----------------------------------------------------------------------------
(* main.py: video_feed, one generator per reader *)

\* line 65: with frame_lock
RdLock(r) ==
    /\ rpc[r] = "idle"
    /\ frame_lock = Free
    /\ frame_lock' = r
    /\ rpc' = [rpc EXCEPT ![r] = "locked"]
    /\ UNCHANGED <<pc, latest_frame, fall_detected_time, message_queue, frame, new_frame,
                   actually_fallen, now, buffer, seen, fnVars, wsVars, alertVars, histVars>>

\* lines 66-67: no frame yet, leave the with block and loop
RdNone(r) ==
    /\ rpc[r] = "locked"
    /\ latest_frame = NoFrame
    /\ frame_lock' = Free
    /\ rpc' = [rpc EXCEPT ![r] = "idle"]
    /\ UNCHANGED <<pc, latest_frame, fall_detected_time, message_queue, frame, new_frame,
                   actually_fallen, now, buffer, seen, fnVars, wsVars, alertVars, histVars>>

\* line 68 and the end of the with block
RdEncode(r) ==
    /\ rpc[r] = "locked"
    /\ latest_frame # NoFrame
    /\ buffer' = [buffer EXCEPT ![r] = latest_frame]
    /\ frame_lock' = Free
    /\ rpc' = [rpc EXCEPT ![r] = "yield"]
    /\ UNCHANGED <<pc, latest_frame, fall_detected_time, message_queue, frame, new_frame,
                   actually_fallen, now, seen, fnVars, wsVars, alertVars, histVars>>

\* lines 69-71: the reader receives the encoded frame
RdYield(r) ==
    /\ rpc[r] = "yield"
    /\ seen' = [seen EXCEPT ![r] = buffer[r]]
    /\ rpc' = [rpc EXCEPT ![r] = "idle"]
    /\ UNCHANGED <<camVars, buffer, fnVars, wsVars, alertVars, histVars>>

VideoFeed == \E r \in Readers : RdLock(r) \/ RdNone(r) \/ RdEncode(r) \/ RdYield(r)

\* the wall clock passes one sustain period
TickFeed ==
    /\ now < SUSTAIN_SECONDS
    /\ now' = now + SUSTAIN_SECONDS
    /\ UNCHANGED <<pc, latest_frame, fall_detected_time, message_queue, frame_lock, frame,
                   new_frame, actually_fallen, feedVars, fnVars, wsVars, alertVars, histVars>>

NextFeed == CameraLoop(MaxFeedFrames) \/ VideoFeed \/ TickFeed
SpecFeed == Init /\ [][NextFeed]_vars

\* one generator's next step
Gen(r) == RdLock(r) \/ RdNone(r) \/ RdEncode(r) \/ RdYield(r)

\* every thread that can go on does so; threading.Lock hands the lock to no
\* waiter in particular, so a thread blocked in acquire has no more than this
FairFeed ==
    /\ WF_vars(CameraLoop(MaxFeedFrames))
    /\ \A r \in Readers : WF_vars(Gen(r))
SpecFeedFair == SpecFeed /\ FairFeed

-----------------------------------------------------------------------------
(* main.py: ws, one handler per /ws connection *)

\* line 79: message_queue.get(timeout=1) returns the oldest message
WsGet(c) ==
    /\ wpc[c] = "get"
    /\ message_queue # <<>>
    /\ wmsg' = [wmsg EXCEPT ![c] = [msg |-> Head(message_queue),
                                    n |-> Head(queued).n,
                                    frame |-> Head(queued).frame]]
    /\ message_queue' = Tail(message_queue)
    /\ queued' = Tail(queued)
    /\ wpc' = [wpc EXCEPT ![c] = "send"]
    /\ UNCHANGED <<pc, latest_frame, fall_detected_time, frame_lock, frame, new_frame,
                   actually_fallen, now, feedVars, fnVars, histVars, alertTime,
                   alertFrame, notified, delivered, dropped>>

\* line 79: the queue stays empty for 1 s, get raises Empty
WsEmpty(c) ==
    /\ wpc[c] = "get"
    /\ message_queue = <<>>
    /\ wpc' = [wpc EXCEPT ![c] = "empty"]
    /\ UNCHANGED <<camVars, feedVars, fnVars, histVars, alertVars, wmsg, delivered,
                   dropped>>

\* lines 81-82: except Empty: continue
WsContinue(c) ==
    /\ wpc[c] = "empty"
    /\ wpc' = [wpc EXCEPT ![c] = "get"]
    /\ UNCHANGED <<camVars, feedVars, fnVars, histVars, alertVars, wmsg, delivered,
                   dropped>>

\* line 80: ws.send(msg) returns
WsSend(c) ==
    /\ wpc[c] = "send"
    /\ delivered' = Append(delivered, wmsg[c])
    /\ wpc' = [wpc EXCEPT ![c] = "get"]
    /\ UNCHANGED <<camVars, feedVars, fnVars, histVars, alertVars, wmsg, dropped>>

\* lines 80, 84-85: ws.send(msg) raises, the outer except ends the handler
WsSendFail(c) ==
    /\ wpc[c] = "send"
    /\ dropped' = dropped \cup {wmsg[c].n}
    /\ wpc' = [wpc EXCEPT ![c] = "closed"]
    /\ UNCHANGED <<camVars, feedVars, fnVars, histVars, alertVars, wmsg, delivered>>

WsHandlers ==
    \E c \in Handlers :
        WsGet(c) \/ WsEmpty(c) \/ WsContinue(c) \/ WsSend(c) \/ WsSendFail(c)

\* the wall clock advances, in steps of the sustain time
TickWs ==
    /\ now + SUSTAIN_SECONDS <= MaxTime
    /\ now' = now + SUSTAIN_SECONDS
    /\ UNCHANGED <<pc, latest_frame, fall_detected_time, message_queue, frame_lock, frame,
                   new_frame, actually_fallen, feedVars, fnVars, wsVars, alertVars,
                   histVars>>

NextWs == CameraLoop(MaxFrames) \/ WsHandlers \/ TickWs
SpecWs == Init /\ [][NextWs]_vars

-----------------------------------------------------------------------------
(* One frame through detect, and through check_person_on_object *)

\* detect(frame) on the frame's detections and pose
FnDetect ==
    /\ fpc = "frame"
    /\ LET d == Detect(raw, keypoints)
       IN  /\ info' = d.info
           /\ fall_suspected' = d.fall_suspected
    /\ fpc' = "detected"
    /\ UNCHANGED <<raw, keypoints, actually_fall, iou, camVars, feedVars, histVars,
                   wsVars, alertVars>>

\* main.py:34-37 on the result of detect
FnFallen ==
    /\ fpc = "detected"
    /\ actually_fall' = ActuallyFallen(raw, keypoints)
    /\ fpc' = "done"
    /\ UNCHANGED <<raw, keypoints, info, fall_suspected, iou, camVars, feedVars, histVars,
                   wsVars, alertVars>>

DetectInit ==
    /\ CamInit /\ FeedInit /\ WsInit
    /\ iou = NoIou
    /\ fpc = "frame"
    /\ raw \in RawFrames
    /\ keypoints \in PoseSet
    /\ info = EmptyInfo
    /\ fall_suspected = FALSE
    /\ actually_fall = [err |-> FALSE, af |-> FALSE]

NextDetect == FnDetect \/ FnFallen
SpecDetect == DetectInit /\ [][NextDetect]_vars

\* check_person_on_object(info, frame) on a FrameDetections value
FnCheck ==
    /\ fpc = "info"
    /\ actually_fall' = check_person_on_object(info)
    /\ fpc' = "done"
    /\ UNCHANGED <<raw, keypoints, info, fall_suspected, iou, camVars, feedVars, histVars,
                   wsVars, alertVars>>

SupportInit ==
    /\ CamInit /\ FeedInit /\ WsInit
    /\ iou = NoIou
    /\ fpc = "info"
    /\ raw = <<>>
    /\ keypoints = <<>>
    /\ info \in Infos
    /\ fall_suspected = TRUE
    /\ actually_fall = [err |-> FALSE, af |-> FALSE]

NextSupport == FnCheck
SpecSupport == SupportInit /\ [][NextSupport]_vars

\* box_iou on a person box and an object box, in both orders and on the
\* person box with itself
FnIou ==
    /\ fpc = "boxes"
    /\ LET a == info.person[1]
           b == info.bed[1]
       IN  iou' = [aa |-> box_iou(a, a), ab |-> box_iou(a, b), ba |-> box_iou(b, a)]
    /\ fpc' = "done"
    /\ UNCHANGED <<raw, keypoints, info, fall_suspected, actually_fall, camVars, feedVars,
                   histVars, wsVars, alertVars>>

IouInit ==
    /\ CamInit /\ FeedInit /\ WsInit
    /\ iou = NoIou
    /\ fpc = "boxes"
    /\ raw = <<>>
    /\ keypoints = <<>>
    /\ \E a \in ValidBoxes, b \in ValidBoxes :
          info = [EmptyInfo EXCEPT !.person = <<a>>, !.bed = <<b>>]
    /\ fall_suspected = TRUE
    /\ actually_fall = [err |-> FALSE, af |-> FALSE]

NextIou == FnIou
SpecIou == IouInit /\ [][NextIou]_vars

-----------------------------------------------------------------------------
(* Claims *)

\* C1 as stated: within one unbroken run of true frames camera_loop emits an
\* alert once, and never again however long the run lasts.
C1_OncePerRun ==
    /\ runAlerts <= 1
    /\ pc = "notify" => runAlerts = 0

\* C1 amended: a processed frame takes the alert branch exactly when it is a
\* true frame and at least 5 s have passed since the first true frame of the
\* run, or since the first true frame after the previous alert of the same
\* run; a run that lasts long enough alerts again.
C1_AlertEachSustain ==
    [][pc = "confirm" /\ pc' # "confirm" =>
          (pc' = "notify" <=>
              actually_fallen /\ segStart' # NoTime /\ now - segStart' >= SUSTAIN_SECONDS)]_vars

\* a second alert in a run that has lasted 10 s
C1_Witness ==
    pc = "notify" /\ runAlerts = 1 /\ now - runStart >= 2 * SUSTAIN_SECONDS

\* C2: an alert is emitted only when every frame processed since the recorded
\* onset was true and 5 s have passed since the onset; a false frame leaves
\* fall_detected_time None, so alternating true / false frames never alert.
C2_AlertOnlyAfterSustainedTrue ==
    /\ pc = "notify" =>
          /\ fall_detected_time # NoTime
          /\ now - fall_detected_time >= SUSTAIN_SECONDS
          /\ lastFalseFrame < onsetFrame
          /\ streak = 2
    /\ lastFalseFrame = frame => fall_detected_time = NoTime

\* an alert in a run that follows a false frame
C2_Witness ==
    pc = "notify" /\ lastFalseFrame > 0 /\ lastFalseFrame < frame

\* C3 as stated: fall_suspected is the OR of the lying classification over
\* the surviving persons.
C3_SuspectedIsOrOfLying ==
    (fpc = "detected" /\ \A i \in 1..Len(info.person) : info.person[i].width > 0) =>
        (fall_suspected <=>
            \E i \in 1..Len(info.person) :
                Lying(info.person[i].width, info.person[i].height))

C4_Unsupported(p) ==
    \A c \in {"bed", "sofa", "chair"} : \A k \in 1..Len(info[c]) : ~Supports(p, info[c][k])

\* C4 as stated: check_person_on_object reports true whenever at least one
\* person has no qualifying support object, whatever the other persons.
C4_AnyUnsupportedPersonFalls ==
    (/\ fpc = "done"
     /\ ~actually_fall.err
     /\ \A i \in 1..Len(info.person) :
            info.person[i].width > 0 /\ info.person[i].height > 0
     /\ \E i \in 1..Len(info.person) : C4_Unsupported(info.person[i]))
    => actually_fall.af

\* C5 as stated: check_person_on_object never raises, whatever the boxes.
C5_NeverRaises ==
    fpc = "done" => ~actually_fall.err

\* C6 as stated: a notifier that raises does not end camera_loop, and the
\* alert of that cycle is on the queue once the cycle is over.
C6_NotifierFailureTolerated ==
    notifier_raised =>
        /\ pc # "dead"
        /\ pc \in {"sleep", "read", "retry"} => Len(message_queue) = decided

C7_Qualifies(p, o) ==
    /\ 10 * box_iou(p, o).num > box_iou(p, o).den
    /\ 2 * HorizontalOverlap(p, o) > p.x2 - p.x1
    /\ p.y2 <= o.y2
    /\ 100 * p.y2 >= 100 * o.y1 - 35 * (o.y2 - o.y1)

\* C7: with exactly one person, of positive width, check_person_on_object
\* returns false iff some bed, sofa or chair has IoU > 0.1, covers more than
\* half the person's width and holds the person's bottom edge within its
\* vertical range.
C7_SinglePersonSupport ==
    (fpc = "done" /\ Len(info.person) = 1 /\ info.person[1].width > 0) =>
        /\ ~actually_fall.err
        /\ ~actually_fall.af <=>
              \E c \in {"bed", "sofa", "chair"} : \E k \in 1..Len(info[c]) :
                  C7_Qualifies(info.person[1], info[c][k])
        /\ info = InfoOnBed => ~actually_fall.af
        /\ info = InfoOnFloor => actually_fall.af

\* the lying person on the bed is found supported
C7_Witness ==
    fpc = "done" /\ info = InfoOnBed /\ ~actually_fall.af /\ ~actually_fall.err

C8_Seen(kps, d) ==
    Cardinality({i \in DOMAIN kps :
        /\ kps[i].v >= 35
        /\ kps[i].x >= d.x1 /\ kps[i].x <= d.x2
        /\ kps[i].y >= d.y1 /\ kps[i].y <= d.y2})

C8_Kept(d) == ~(d.cls = "person" /\ C8_Seen(keypoints, d) < 17)

\* C8: a person with fewer than 17 keypoints of visibility >= 0.35 inside its
\* box is never stored in info['person'] and does not change fall_suspected or
\* info; with no keypoints no person is stored.
C8_HiddenPersonsDiscarded ==
    fpc = "detected" =>
        /\ \A i \in 1..Len(info.person) : C8_Seen(keypoints, info.person[i]) >= 17
        /\ Detect(SelectSeq(raw, C8_Kept), keypoints) =
               [info |-> info, fall_suspected |-> fall_suspected]
        /\ keypoints = <<>> => info.person = <<>> /\ ~fall_suspected

\* a confident lying person with 16 good keypoints is dropped
C8_Witness ==
    /\ fpc = "detected"
    /\ \E j \in 1..Len(raw) :
          /\ raw[j].cls = "person" /\ raw[j].conf >= CONF_THRESHOLD
          /\ Lying(raw[j].x2 - raw[j].x1, raw[j].y2 - raw[j].y1)
          /\ C8_Seen(keypoints, raw[j]) = 16
    /\ info.person = <<>>
    /\ ~fall_suspected

\* C9 as stated: a single surviving person is classified lying only when
\* height / width is strictly below 1.15; at exactly 1.15 it is not lying.
C9_ExactRatioNotLying ==
    (fpc = "detected" /\ Len(info.person) = 1 /\ info.person[1].width > 0) =>
        (fall_suspected <=> 100 * info.person[1].height < 115 * info.person[1].width)

\* C10: the slot holds the last completed frame except while camera_loop is
\* publishing the next one, no reader is inside the lock together with the
\* writer or another reader, and what a reader receives is never older than
\* what it received before.
C10_LatestFrameInOrder ==
    /\ latest_frame = IF pc \in {"publish", "locked"} THEN new_frame - 1 ELSE new_frame
    /\ \A r \in Readers :
          /\ rpc[r] = "locked" => frame_lock = r /\ pc # "locked"
          /\ rpc[r] = "yield" => buffer[r] # NoFrame /\ buffer[r] >= seen[r]
          /\ seen[r] <= latest_frame /\ buffer[r] <= latest_frame
    /\ pc = "locked" => frame_lock = Camera

\* a reader receives a frame after having skipped one
C10_Witness ==
    \E r \in Readers : rpc[r] = "yield" /\ seen[r] # NoFrame /\ buffer[r] >= seen[r] + 2

\* C11: with one producer and any number of /ws handlers, the alerts reach
\* the listeners (ws.send) in the order in which camera_loop enqueued them.
C11_DeliveredInEnqueueOrder ==
    \A i, j \in 1..Len(delivered) : i < j => delivered[i].n < delivered[j].n

\* C12: every enqueued alert is consumed exactly once: no two handlers
\* dequeue the same alert, and no dequeued alert is dropped without being
\* sent, also when the ws.send of the dequeuing handler fails.
C12_ConsumedExactlyOnce ==
    /\ \A i, j \in 1..Len(delivered) : i # j => delivered[i].n # delivered[j].n
    /\ \A c, d \in Handlers :
          c # d /\ wpc[c] = "send" /\ wpc[d] = "send" => wmsg[c].n # wmsg[d].n
    /\ dropped = {}


\* C13: once an alert is enqueued fall_detected_time is None, and the next
\* alert needs a new onset, recorded no earlier than the previous alert, and
\* 5 s of true frames after it: consecutive alerts are at least 5 s apart.
C13_AlertsFiveSecondsApart ==
    /\ alertFrame = frame /\ pc \in {"sleep", "read", "retry"} =>
          fall_detected_time = NoTime
    /\ pc \in {"notify", "put"} /\ alertTime # NoTime =>
          /\ onsetFrame > alertFrame
          /\ lastFalseFrame < onsetFrame
          /\ fall_detected_time >= alertTime
          /\ now - fall_detected_time >= SUSTAIN_SECONDS
          /\ now - alertTime >= SUSTAIN_SECONDS

\* a second alert is about to be enqueued
C13_Witness ==
    pc = "put" /\ alertTime # NoTime /\ alertFrame # NoFrame

\* C15: a cycle whose cap.read() fails has no effect: latest_frame,
\* fall_detected_time and message_queue keep their values, no alert is
\* decided or enqueued, no frame is consumed, and the loop goes back to
\* cap.read().
C15_FailedReadSkipped ==
    [][/\ pc = "read" /\ pc' = "retry" =>
             /\ UNCHANGED <<latest_frame, fall_detected_time, message_queue, frame,
                            decided, notified, queued, alertTime>>
       /\ pc = "retry" /\ pc' # "retry" =>
             /\ pc' = "read"
             /\ UNCHANGED <<latest_frame, fall_detected_time, message_queue, frame,
                            decided, notified, queued, alertTime>>]_vars

\* a read fails while an onset is recorded and a frame is published
C15_Witness ==
    pc = "retry" /\ fall_detected_time # NoTime /\ latest_frame # NoFrame

C14_Apart(a, b) ==
    a.x2 <= b.x1 \/ b.x2 <= a.x1 \/ a.y2 <= b.y1 \/ b.y2 <= a.y1

\* C14: for all boxes a, b with x1 < x2 and y1 < y2 on the integer grid,
\* box_iou(a, a) = 1, box_iou(a, b) = box_iou(b, a), and box_iou(a, b) = 0
\* when a and b do not intersect, touching along an edge included.
C14_IouAlgebra ==
    fpc = "done" =>
        LET a == info.person[1]
            b == info.bed[1]
        IN  /\ iou.aa.den > 0 /\ iou.aa.num = iou.aa.den
            /\ iou.ab.den > 0 /\ iou.ba.den > 0
            /\ iou.ab.num * iou.ba.den = iou.ba.num * iou.ab.den
            /\ C14_Apart(a, b) => iou.ab.num = 0
            /\ ~C14_Apart(a, b) => iou.ab.num > 0 /\ iou.ab.num <= iou.ab.den

\* two different boxes that touch along a vertical edge
C14_Witness ==
    /\ fpc = "done"
    /\ info.person[1].x2 = info.bed[1].x1
    /\ info.person[1].y1 < info.bed[1].y2 /\ info.bed[1].y1 < info.person[1].y2
    /\ iou.ab.num = 0 /\ iou.aa.num = iou.aa.den

\* C17: on every alert the image handed to the notifier is the annotated
\* frame of the triggering cycle, the one published to latest_frame, not the
\* raw input frame.
C17_NotifierGetsAnnotatedFrame ==
    pc = "put" => notified = Annotated(new_frame) /\ new_frame = latest_frame

\* C19: camera_loop publishes the annotated frame of a cycle before it
\* enqueues the cycle's alert, so whenever an alert is in the queue or has been
\* dequeued by a handler, latest_frame holds the triggering frame or a later
\* one.
C19_FramePublishedBeforeAlert ==
    /\ pc \in {"notify", "put"} => latest_frame = frame
    /\ \A i \in 1..Len(queued) :
          queued[i].frame # NoFrame /\ latest_frame >= queued[i].frame
    /\ \A c \in Handlers :
          wpc[c] = "send" => wmsg[c].frame # NoFrame /\ latest_frame >= wmsg[c].frame

\* a handler holds an alert while camera_loop has published a later frame
C19_Witness ==
    \E c \in Handlers : wpc[c] = "send" /\ latest_frame > wmsg[c].frame

\* C16: readers never block the writer for ever: under fair scheduling, with
\* any number of readers polling, also while latest_frame is None and a
\* reader releases and at once re-acquires frame_lock, camera_loop eventually
\* acquires frame_lock and publishes each frame it has processed.
C16_WriterEventuallyPublishes ==
    (pc = "publish") ~> (pc = "confirm" /\ latest_frame = new_frame)

====
